---- MODULE Spec2Model ----
(***************************************************************************)
(* A model of the FastAPI CRUD service: the module-level creation of the   *)
(* MySQL connection pool (database.py), execute_query with its two scoped  *)
(* context managers, and the fifteen route handlers of main.py running on  *)
(* concurrent worker threads against three tables.                         *)
(***************************************************************************)
EXTENDS Integers, Sequences, FiniteSets, TLC

\* ------------------------------------------------------------------ bounds
\* worker threads that run the (synchronous) handlers concurrently
NumHandlers == 2
\* DB_POOL_SIZE is drawn from 1..MaxPoolSize
MaxPoolSize == 3
\* rows inserted over the three tables
MaxRows == 1

Handlers == 1 .. NumHandlers

\* ------------------------------------------------------------ data model
\* Python's None
None == "None"

Resources == {"empleados", "clientes", "proveedores"}

\* the columns named by the INSERT / UPDATE statements, in statement order
Columns(res) ==
    CASE res = "empleados"   -> <<"nombre", "puesto", "salario">>
      [] res = "clientes"    -> <<"numero_identificacion", "nombre_cliente",
                                  "telefono_cliente", "email_cliente">>
      [] res = "proveedores" -> <<"numero_identificacion", "nombre_proveedor",
                                  "contacto_principal", "telefono_proveedor">>

\* the column of the WHERE clause, which is also the key of the response model
KeyColumn(res) ==
    CASE res = "empleados"   -> "id"
      [] res = "clientes"    -> "id_cliente"
      [] res = "proveedores" -> "id_proveedor"

\* the fields a handler tests with `not x` before it issues its query
Checked(res) ==
    CASE res = "empleados"   -> {}
      [] res = "clientes"    -> {"numero_identificacion", "nombre_cliente",
                                 "telefono_cliente"}
      [] res = "proveedores" -> {"numero_identificacion", "nombre_proveedor",
                                 "contacto_principal", "telefono_proveedor"}

\* the fields pydantic requires to be present (no default value)
RequiredFields(res) ==
    CASE res = "empleados"   -> {"nombre", "puesto"}
      [] res = "clientes"    -> {"numero_identificacion", "nombre_cliente",
                                 "telefono_cliente"}
      [] res = "proveedores" -> {"numero_identificacion", "nombre_proveedor",
                                 "contacto_principal", "telefono_proveedor"}

\* request bodies that pass pydantic: every field present, strings may be ""
GoodBodies(res) ==
    CASE res = "empleados" ->
           { [nombre |-> "Ana", puesto |-> "Dev", salario |-> 10],
             [nombre |-> "Dev", puesto |-> "Ana", salario |-> 20] }
      [] res = "clientes" ->
           { [numero_identificacion |-> "A1", nombre_cliente |-> "Jane",
              telefono_cliente |-> "555-0100", email_cliente |-> None],
             [numero_identificacion |-> "Jane", nombre_cliente |-> "A1",
              telefono_cliente |-> "555-0100", email_cliente |-> "j@x"] }
      [] res = "proveedores" ->
           { [numero_identificacion |-> "P1", nombre_proveedor |-> "Acme",
              contacto_principal |-> "Bob", telefono_proveedor |-> "555-0199"],
             [numero_identificacion |-> "Acme", nombre_proveedor |-> "P1",
              contacto_principal |-> "Bob", telefono_proveedor |-> "555-0199"] }

FirstBody(res) ==
    CASE res = "empleados" -> [nombre |-> "Ana", puesto |-> "Dev", salario |-> 10]
      [] res = "clientes" ->
           [numero_identificacion |-> "A1", nombre_cliente |-> "Jane",
            telefono_cliente |-> "555-0100", email_cliente |-> None]
      [] res = "proveedores" ->
           [numero_identificacion |-> "P1", nombre_proveedor |-> "Acme",
            contacto_principal |-> "Bob", telefono_proveedor |-> "555-0199"]

\* the same bodies with one required string field submitted empty
EmptyFieldBodies(res) ==
    { [FirstBody(res) EXCEPT ![f] = ""] : f \in RequiredFields(res) }

Bodies(res) == GoodBodies(res) \cup EmptyFieldBodies(res)

NoBody == <<>>
NoRow == <<>>

\* the ids a request may name: every id handed out, and one never handed out
Ids == 1 .. MaxRows + 1

Requests ==
         [op : {"list"}, res : Resources, id : {0}, body : {NoBody}]
    \cup [op : {"get", "delete"}, res : Resources, id : Ids, body : {NoBody}]
    \cup UNION { [op : {"create"}, res : {r}, id : {0}, body : Bodies(r)]
                 : r \in Resources }
    \cup UNION { [op : {"update"}, res : {r}, id : Ids, body : Bodies(r)]
                 : r \in Resources }

NoRequest == [op |-> "none", res |-> "none", id |-> 0, body |-> NoBody]

Range(s) == { s[i] : i \in DOMAIN s }


Min(a, b) == IF a <= b THEN a ELSE b
Max(a, b) == IF a >= b THEN a ELSE b

\* {**body, key: v}: the body's fields plus the key field
Extend(f, k, v) == [c \in DOMAIN f \cup {k} |-> IF c = k THEN v ELSE f[c]]

\* position of column c in the statement's column list
Index(cols, c) == CHOOSE i \in DOMAIN cols : cols[i] = c

\* -------------------------------------------------------------- variables
VARIABLES
    pool_size,        \* db_config.pool_size
    startup,          \* position of the module-level code of database.py
    requested,        \* pool_size argument of each MySQLConnectionPool(...) call
    first_err,        \* err.errno class of the first failed creation
    raised,           \* exception that ended the import, or None
    connection_pool,  \* the module-level pool object, size 0 = None
    available,        \* the pool's queue of idle connections
    live,             \* connections whose server session is up (is_connected())
    table,            \* rows of the three tables
    nextId,           \* AUTO_INCREMENT counter of each table
    submitted,        \* history: the body each id was created with
    touched,          \* history: ids updated or deleted since their creation
    deleted,          \* history: ids a DELETE reported a row for
    pc,               \* position of each worker thread
    req,              \* the request a worker is serving
    conn,             \* the connection a worker's execute_query holds, 0 = none
    stmts,            \* statements run on the current lease
    outcome,          \* what execute_query returned or raised
    snap,             \* history: what the statement met when it ran
    resp              \* the HTTP response

vars == <<pool_size, startup, requested, first_err, raised, connection_pool,
          available, live, table, nextId, submitted, touched, deleted,
          pc, req, conn, stmts, outcome, snap, resp>>

poolVars == <<pool_size, startup, requested, first_err, raised, connection_pool>>
storeVars == <<table, nextId, submitted, touched, deleted>>

NoPool == [name |-> None, size |-> 0]
NoOutcome == [tag |-> "unset", row |-> NoRow, rows |-> {}, n |-> 0]
Error == [tag |-> "error", row |-> NoRow, rows |-> {}, n |-> 0]
NoSnap == [existed |-> FALSE, pristine |-> FALSE, gone |-> FALSE,
           changed |-> FALSE, failed |-> FALSE]
Failed == [NoSnap EXCEPT !.failed = TRUE]
NoResp == [status |-> 0, body |-> NoRow, rows |-> {}]

\* ------------------------------------------------------- pool creation
\* the size of the fallback pool
reduced_size(p) == Min(3, p - 2)

\* MySQLConnectionPool._set_pool_size accepts 1..32 and raises AttributeError otherwise
ValidPoolSize(n) == n > 0 /\ n <= 32

NewPool(name, n) ==
    /\ connection_pool' = [name |-> name, size |-> n]
    /\ available' = [i \in 1 .. n |-> i]
    /\ live' = 1 .. n
    /\ startup' = "ready"

Fatal(exc) ==
    /\ startup' = "fatal"
    /\ raised' = exc
    /\ UNCHANGED <<connection_pool, available, live>>

\* CreatePool retrying after any error, not only ER_USER_LIMIT_REACHED
CreatePoolRetriesAnyError ==
    /\ startup = "first"
    /\ requested' = <<pool_size>>
    /\ \/ /\ NewPool("fastapi_pool", pool_size)
          /\ UNCHANGED <<first_err, raised>>
       \/ /\ first_err' \in {"ER_USER_LIMIT_REACHED", "other"}
          /\ startup' = "retry"
          /\ UNCHANGED <<raised, connection_pool, available, live>>
    /\ UNCHANGED <<pool_size, storeVars, pc, req, conn, stmts, outcome, snap, resp>>

\* database.py: the first MySQLConnectionPool(...) call and its except clause
CreatePool ==
    /\ startup = "first"
    /\ requested' = <<pool_size>>
    /\ \/ /\ NewPool("fastapi_pool", pool_size)
          /\ UNCHANGED <<first_err, raised>>
       \/ /\ first_err' = "ER_USER_LIMIT_REACHED"
          /\ startup' = "retry"
          /\ UNCHANGED <<raised, connection_pool, available, live>>
       \/ /\ first_err' = "other"
          /\ Fatal("RuntimeError")
    /\ UNCHANGED <<pool_size, storeVars, pc, req, conn, stmts, outcome, snap, resp>>

\* database.py: the fallback pool inside the except clause
CreateReducedPool ==
    /\ startup = "retry"
    /\ requested' = Append(requested, reduced_size(pool_size))
    /\ IF ValidPoolSize(reduced_size(pool_size))
         THEN \/ /\ NewPool("fastapi_pool_reduced", reduced_size(pool_size))
                 /\ UNCHANGED raised
              \/ Fatal("RuntimeError")
         ELSE Fatal("AttributeError")
    /\ UNCHANGED <<pool_size, first_err, storeVars, pc, req, conn, stmts,
                   outcome, snap, resp>>


\* ------------------------------------------------------- the statements
\* create_params with the first two values in the wrong order
create_params_swapped(res, body) ==
    [i \in DOMAIN Columns(res) |->
        body[Columns(res)[IF i = 1 THEN 2 ELSE IF i = 2 THEN 1 ELSE i]]]

\* the tuple of bound values a create handler passes with its INSERT
create_params(res, body) ==
    [i \in DOMAIN Columns(res) |-> body[Columns(res)[i]]]

\* the tuple an update handler passes with its UPDATE: the fields, then the id
update_params(res, body, id) == Append(create_params(res, body), id)

Keys(res) == { r[KeyColumn(res)] : r \in table[res] }

\* WHERE <key> = %s
Matching(res, id) == { r \in table[res] : r[KeyColumn(res)] = id }

\* INSERT INTO res (cols) VALUES (params): the row the server stores
InsertedRow(res, params, id) ==
    [c \in Range(Columns(res)) \cup {KeyColumn(res)} |->
        IF c = KeyColumn(res) THEN id ELSE params[Index(Columns(res), c)]]

\* UPDATE res SET col=%s, ... : the row r after the assignment
UpdatedRow(res, params, r) ==
    [c \in DOMAIN r |->
        IF c \in Range(Columns(res)) THEN params[Index(Columns(res), c)] ELSE r[c]]

\* cursor.rowcount after an UPDATE: the rows the statement changed (the
\* connection is opened without the FOUND_ROWS client flag)
UpdateRowcount(res, params, id) ==
    Cardinality({ r \in Matching(res, id) : UpdatedRow(res, params, r) # r })

\* cursor.rowcount after a DELETE
DeleteRowcount(res, id) == Cardinality(Matching(res, id))

\* ------------------------------------------------------- the handlers
\* the `if not ...: raise HTTPException(400)` test of create_* and update_*
Rejected(r) ==
    /\ r.op \in {"create", "update"}
    /\ \E f \in Checked(r.res) : r.body[f] = ""

Status(code) == [status |-> code, body |-> NoRow, rows |-> {}]

\* Respond with list handlers that answer an error with an empty list
RespondSwallowing(r, o) ==
    CASE o.tag = "error" -> IF r.op = "list" THEN [status |-> 200, body |-> NoRow, rows |-> {}]
                            ELSE Status(500)
      [] o.tag = "rows"  -> [status |-> 200, body |-> NoRow, rows |-> o.rows]
      [] o.tag = "none"  -> Status(404)
      [] o.tag = "row"   -> [status |-> 200, body |-> o.row, rows |-> {}]
      [] o.tag = "id"    -> [status |-> 201, rows |-> {},
                             body |-> Extend(r.body, KeyColumn(r.res), o.n)]
      [] o.tag = "count" ->
           IF o.n = 0 THEN Status(404)
           ELSE IF r.op = "update"
                  THEN [status |-> 200, rows |-> {},
                        body |-> Extend(r.body, KeyColumn(r.res), r.id)]
                  ELSE Status(204)

\* what a handler answers once execute_query has returned or raised o
Respond(r, o) ==
    CASE o.tag = "error" -> Status(500)
      [] o.tag = "rows"  -> [status |-> 200, body |-> NoRow, rows |-> o.rows]
      [] o.tag = "none"  -> Status(404)
      [] o.tag = "row"   -> [status |-> 200, body |-> o.row, rows |-> {}]
      [] o.tag = "id"    -> [status |-> 201, rows |-> {},
                             body |-> Extend(r.body, KeyColumn(r.res), o.n)]
      [] o.tag = "count" ->
           IF o.n = 0 THEN Status(404)
           ELSE IF r.op = "update"
                  THEN [status |-> 200, rows |-> {},
                        body |-> Extend(r.body, KeyColumn(r.res), r.id)]
                  ELSE Status(204)

\* creates already admitted and not yet executed
PendingCreates ==
    Cardinality({ h \in Handlers : pc[h] = "leased" /\ req[h].op = "create" })

\* rows inserted so far: the AUTO_INCREMENT counters start at 1
Inserted ==
    (nextId["empleados"] - 1) + (nextId["clientes"] - 1) + (nextId["proveedores"] - 1)

Serve(h, r) ==
    /\ startup = "ready"
    /\ pc[h] = "idle"
    /\ r \in Requests
    /\ req' = [req EXCEPT ![h] = r]
    /\ r.op = "create" /\ ~Rejected(r) => Inserted + PendingCreates < MaxRows

Answer(h, r, o) ==
    /\ pc' = [pc EXCEPT ![h] = "done"]
    /\ snap' = [snap EXCEPT ![h] = Failed]
    /\ outcome' = [outcome EXCEPT ![h] = o]
    /\ resp' = [resp EXCEPT ![h] = Respond(r, o)]

\* create_* / update_* with an empty required field: 400 before any query
Reject(h, r) ==
    /\ Serve(h, r)
    /\ Rejected(r)
    /\ pc' = [pc EXCEPT ![h] = "done"]
    /\ resp' = [resp EXCEPT ![h] = Status(400)]
    /\ UNCHANGED <<poolVars, available, live, storeVars, conn, stmts, outcome, snap>>

\* Dequeue handing out the head without taking it off the queue
DequeueKeeps(q) == q

\* connection_pool.get_connection(): the head of the queue leaves the queue
Dequeue(q) == Tail(q)

\* a handler calls execute_query, which enters get_db_cursor and
\* get_db_connection: connection_pool.get_connection() and conn.cursor()
get_db_connection(h, r) ==
    /\ Serve(h, r)
    /\ ~Rejected(r)
    /\ \/ \* PoolError: the queue is empty
          /\ available = <<>>
          /\ Answer(h, r, Error)
          /\ UNCHANGED <<available, live, conn, stmts>>
       \/ \* the idle connection is found down and reconnect() fails: it is
          \* queued again and InterfaceError is raised
          /\ available # <<>>
          /\ available' = Append(Dequeue(available), Head(available))
          /\ Answer(h, r, Error)
          /\ UNCHANGED <<live, conn, stmts>>
       \/ \* a connection is leased (after a successful reconnect() if it was down)
          /\ available # <<>>
          /\ available' = Dequeue(available)
          /\ UNCHANGED live
          /\ conn' = [conn EXCEPT ![h] = Head(available)]
          /\ stmts' = [stmts EXCEPT ![h] = 0]
          /\ pc' = [pc EXCEPT ![h] = "leased"]
          /\ UNCHANGED <<outcome, resp, snap>>
    /\ UNCHANGED <<poolVars, storeVars>>


\* ------------------------------------------------------- the store
AfterInsert(res, params, id) == table[res] \cup {InsertedRow(res, params, id)}

\* AfterUpdate inserting the row when the id matches nothing
AfterUpsert(res, params) ==
    IF Matching(res, params[Len(params)]) = {}
      THEN table[res] \cup {InsertedRow(res, params, params[Len(params)])}
      ELSE (table[res] \ Matching(res, params[Len(params)]))
             \cup { UpdatedRow(res, params, r) : r \in Matching(res, params[Len(params)]) }

\* the last bound value is the id of the WHERE clause
AfterUpdate(res, params) ==
    (table[res] \ Matching(res, params[Len(params)]))
        \cup { UpdatedRow(res, params, r) : r \in Matching(res, params[Len(params)]) }

\* AfterDelete whose statement is never committed
AfterDeleteUncommitted(res, id) == table[res]

AfterDelete(res, id) == table[res] \ Matching(res, id)

\* the table of request r once its statement has run and been committed
TableAfter(r) ==
    CASE r.op = "create" -> AfterInsert(r.res, create_params(r.res, r.body), nextId[r.res])
      [] r.op = "update" -> AfterUpdate(r.res, update_params(r.res, r.body, r.id))
      [] r.op = "delete" -> AfterDelete(r.res, r.id)
      [] OTHER           -> table[r.res]

\* what execute_query returns for the selector of request r
Result(r) ==
    CASE r.op = "list" ->
           \* fetch_all=True
           [tag |-> "rows", row |-> NoRow, rows |-> table[r.res], n |-> 0]
      [] r.op = "get" ->
           \* fetch_one=True: a row, or None when nothing matches
           IF Matching(r.res, r.id) = {}
             THEN [tag |-> "none", row |-> NoRow, rows |-> {}, n |-> 0]
             ELSE [tag |-> "row", rows |-> {}, n |-> 0,
                   row |-> CHOOSE x \in Matching(r.res, r.id) : TRUE]
      [] r.op = "create" ->
           \* lastrowid=True
           [tag |-> "id", row |-> NoRow, rows |-> {}, n |-> nextId[r.res]]
      [] r.op = "update" ->
           [tag |-> "count", row |-> NoRow, rows |-> {},
            n |-> UpdateRowcount(r.res, update_params(r.res, r.body, r.id), r.id)]
      [] r.op = "delete" ->
           [tag |-> "count", row |-> NoRow, rows |-> {}, n |-> DeleteRowcount(r.res, r.id)]

SubmittedIds(res) == { s.id : s \in submitted[res] }

\* history: what the statement of request r meets and does
SnapOf(r) ==
    [existed  |-> r.id \in Keys(r.res),
     pristine |-> r.id \in SubmittedIds(r.res) /\ r.id \notin touched[r.res],
     gone     |-> r.id \in deleted[r.res],
     changed  |-> TableAfter(r) # table[r.res],
     failed   |-> FALSE]

\* execute_query: cursor.execute(query, params) and the branch on the selector,
\* on a connection that is up, for the statement of the handler's operation
execute_query(h) ==
    /\ pc[h] = "leased"
    /\ conn[h] \in live
    /\ LET r == req[h] IN
         /\ table' = [table EXCEPT ![r.res] = TableAfter(r)]
         /\ outcome' = [outcome EXCEPT ![h] = Result(r)]
         /\ nextId' = [nextId EXCEPT ![r.res] = IF r.op = "create" THEN @ + 1 ELSE @]
         /\ submitted' = [submitted EXCEPT ![r.res] =
               IF r.op = "create" THEN @ \cup {[id |-> nextId[r.res], body |-> r.body]}
               ELSE @]
         /\ touched' = [touched EXCEPT ![r.res] =
               IF r.op \in {"update", "delete"} /\ r.id \in Keys(r.res)
                 THEN @ \cup {r.id} ELSE @]
         /\ deleted' = [deleted EXCEPT ![r.res] =
               IF r.op = "delete" /\ Result(r).n > 0 THEN @ \cup {r.id} ELSE @]
         /\ snap' = [snap EXCEPT ![h] = SnapOf(r)]
    /\ stmts' = [stmts EXCEPT ![h] = @ + 1]
    /\ pc' = [pc EXCEPT ![h] = "executed"]
    /\ UNCHANGED <<poolVars, available, live, req, conn, resp>>

\* execute_query raising: conn.cursor() on a connection that is down
\* (OperationalError, no statement sent), or the server rejecting the
\* statement, the fetch or the commit (nothing is committed)
execute_raises(h) ==
    /\ pc[h] = "leased"
    /\ \/ /\ conn[h] \notin live
          /\ UNCHANGED stmts
       \/ /\ conn[h] \in live
          /\ stmts' = [stmts EXCEPT ![h] = @ + 1]
    /\ outcome' = [outcome EXCEPT ![h] = Error]
    /\ snap' = [snap EXCEPT ![h] = Failed]
    /\ pc' = [pc EXCEPT ![h] = "executed"]
    /\ UNCHANGED <<poolVars, available, live, storeVars, req, conn, resp>>

\* the finally clause of get_db_connection: conn.close() puts the connection
\* back in the queue, and runs only if conn.is_connected()
Returned(q, c) == IF c \in live THEN Append(q, c) ELSE q

\* the finally clauses of get_db_cursor and get_db_connection, then the
\* handler's answer
close_connection(h) ==
    /\ pc[h] = "executed"
    /\ available' = Returned(available, conn[h])
    /\ conn' = [conn EXCEPT ![h] = 0]
    /\ pc' = [pc EXCEPT ![h] = "done"]
    /\ resp' = [resp EXCEPT ![h] = Respond(req[h], outcome[h])]
    /\ UNCHANGED <<poolVars, live, storeVars, req, stmts, outcome, snap>>

\* the response has been sent: the worker thread is free again
Return(h) ==
    /\ pc[h] = "done"
    /\ pc' = [pc EXCEPT ![h] = "idle"]
    /\ req' = [req EXCEPT ![h] = NoRequest]
    /\ outcome' = [outcome EXCEPT ![h] = NoOutcome]
    /\ snap' = [snap EXCEPT ![h] = NoSnap]
    /\ resp' = [resp EXCEPT ![h] = NoResp]
    /\ stmts' = [stmts EXCEPT ![h] = 0]
    /\ UNCHANGED <<poolVars, available, live, storeVars, conn>>

\* the server or the network drops the session of a leased connection (the
\* drop of an idle one is seen by get_connection() alone, as its reconnect())
ConnectionLost(c) ==
    /\ c \in live
    /\ \E h \in Handlers : conn[h] = c
    /\ live' = live \ {c}
    /\ UNCHANGED <<poolVars, available, storeVars, pc, req, conn, stmts,
                   outcome, snap, resp>>

\* ------------------------------------------------------- specification
Init ==
    /\ pool_size \in 1 .. MaxPoolSize
    /\ startup = "first"
    /\ requested = <<>>
    /\ first_err = None
    /\ raised = None
    /\ connection_pool = NoPool
    /\ available = <<>>
    /\ live = {}
    /\ table = [r \in Resources |-> {}]
    /\ nextId = [r \in Resources |-> 1]
    /\ submitted = [r \in Resources |-> {}]
    /\ touched = [r \in Resources |-> {}]
    /\ deleted = [r \in Resources |-> {}]
    /\ pc = [h \in Handlers |-> "idle"]
    /\ req = [h \in Handlers |-> NoRequest]
    /\ conn = [h \in Handlers |-> 0]
    /\ stmts = [h \in Handlers |-> 0]
    /\ outcome = [h \in Handlers |-> NoOutcome]
    /\ snap = [h \in Handlers |-> NoSnap]
    /\ resp = [h \in Handlers |-> NoResp]

\* the program with the worker threads H serving requests drawn from R
Step(H, R) ==
    \/ CreatePool
    \/ CreateReducedPool
    \/ \E h \in H, r \in R : Reject(h, r)
    \/ \E h \in H, r \in R : get_db_connection(h, r)
    \/ \E h \in H : execute_query(h)
    \/ \E h \in H : execute_raises(h)
    \/ \E h \in H : close_connection(h)
    \/ \E h \in H : Return(h)
    \/ \E c \in live : ConnectionLost(c)

\* concurrent workers, each reading or writing the clients
Workload ==
         [op : {"get"}, res : {"clientes"}, id : {1}, body : {NoBody}]
    \cup [op : {"create"}, res : {"clientes"}, id : {0},
          body : {[FirstBody("clientes") EXCEPT !.nombre_cliente = ""]}]
    \cup [op : {"create"}, res : {"clientes"}, id : {0}, body : {FirstBody("clientes")}]

Next == Step(Handlers, Workload)

Spec == Init /\ [][Next]_vars

\* one worker serving every request of every resource
NextCrud == Step({1}, Requests)

\* behind a pool of a single connection
InitCrud == Init /\ pool_size = 1

SpecCrud == InitCrud /\ [][NextCrud]_vars


\* ------------------------------------------------------- properties
Leased == { conn[h] : h \in Handlers } \ {0}

Finished(h, op) ==
    /\ pc[h] = "done"
    /\ req[h].op = op
    /\ outcome[h].tag \notin {"unset", "error"}

\* C1: every connection of the pool is either idle in the queue or leased to
\* a running execute_query, once each, so that whenever no call is running the
\* queue holds as many connections as the pool was created with (a call that
\* fails gives its connection back).
LeakFreedom ==
    startup = "ready" =>
        /\ Len(available) = Cardinality(Range(available))
        /\ \A c \in 1 .. connection_pool.size :
               (c \in Range(available)) # (c \in Leased)
        /\ Leased = {} => Len(available) = connection_pool.size

\* C2: at most two pools are ever requested; the second is requested exactly
\* when the first was rejected with ER_USER_LIMIT_REACHED; any other first
\* error, and a rejected second request, end the import with an exception,
\* leaving no pool; and no request is served unless a pool exists.
PoolInitRetriesOnce ==
    /\ Len(requested) <= 2
    /\ first_err = "other" => startup = "fatal" /\ Len(requested) = 1
    /\ Len(requested) = 2 <=>
           (first_err = "ER_USER_LIMIT_REACHED" /\ startup \in {"ready", "fatal"})
    /\ startup = "fatal" => raised # None /\ connection_pool = NoPool
    /\ startup = "ready" => raised = None /\ connection_pool.size > 0
    /\ startup # "ready" => \A h \in Handlers : pc[h] = "idle" /\ resp[h].status = 0

PoolInitWitness ==
    /\ startup = "fatal"
    /\ Len(requested) = 2
    /\ raised = "RuntimeError"

\* C3: the size requested for the fallback pool is max(pool_size - 2, 1): at
\* least 1, and smaller than pool_size when pool_size > 1.
FallbackSizeIsMax ==
    Len(requested) = 2 =>
        /\ requested[2] = Max(pool_size - 2, 1)
        /\ requested[2] >= 1
        /\ pool_size > 1 => requested[2] < pool_size

\* C4: a create answered 201 carries the submitted fields and the id under
\* which they were stored, and a get whose query succeeds on an id that was
\* created and neither updated nor deleted since answers 200 with exactly
\* the fields submitted on create and that id.
RoundTrip ==
    \A h \in Handlers :
        /\ Finished(h, "create") =>
               /\ resp[h].status = 201
               /\ resp[h].body = Extend(req[h].body, KeyColumn(req[h].res), outcome[h].n)
               /\ [id |-> outcome[h].n, body |-> req[h].body] \in submitted[req[h].res]
        /\ Finished(h, "get") /\ snap[h].pristine =>
               /\ resp[h].status = 200
               /\ \E s \in submitted[req[h].res] :
                      /\ s.id = req[h].id
                      /\ resp[h].body = Extend(s.body, KeyColumn(req[h].res), s.id)

RoundTripWitness ==
    \E h \in Handlers :
        /\ Finished(h, "get")
        /\ snap[h].pristine
        /\ resp[h].status = 200
        /\ req[h].res = "clientes"
        /\ resp[h].body["numero_identificacion"] = "A1"

\* C5: a create or update whose body has an empty required field is answered
\* 400 without a connection being acquired or a statement run, for each of
\* the three resources.
ValidationBeforeQuery ==
    \A h \in Handlers :
        (/\ req[h].op \in {"create", "update"}
         /\ \E f \in RequiredFields(req[h].res) : req[h].body[f] = "")
        => /\ pc[h] = "done"
           /\ resp[h].status = 400
           /\ conn[h] = 0
           /\ stmts[h] = 0

\* C6: an UPDATE that ran on an id absent from its table reports zero affected
\* rows and leaves the table as it was, and the handler answers 404.
UpdateMissingIs404 ==
    \A h \in Handlers :
        (/\ pc[h] \in {"executed", "done"}
         /\ req[h].op = "update"
         /\ outcome[h].tag = "count"
         /\ ~snap[h].existed)
        => /\ outcome[h].n = 0
           /\ ~snap[h].changed
           /\ pc[h] = "done" => resp[h].status = 404

UpdateMissingWitness ==
    \E h \in Handlers :
        /\ Finished(h, "update")
        /\ ~snap[h].existed
        /\ resp[h].status = 404
        /\ table[req[h].res] # {}

\* C7: a DELETE that ran on an id absent from its table reports zero affected
\* rows and leaves the table as it was, and the handler answers 404; a DELETE
\* on an id that is there is answered 204; an id once deleted is never in the
\* table again, so a later delete of it and a later get of it answer 404.
DeleteMissingIs404 ==
    /\ \A res \in Resources : deleted[res] \cap Keys(res) = {}
    /\ \A h \in Handlers :
        /\ (/\ pc[h] \in {"executed", "done"}
            /\ req[h].op = "delete"
            /\ outcome[h].tag = "count"
            /\ ~snap[h].existed)
           => /\ outcome[h].n = 0
              /\ ~snap[h].changed
              /\ pc[h] = "done" => resp[h].status = 404
        /\ Finished(h, "delete") /\ snap[h].existed => resp[h].status = 204
        /\ (Finished(h, "delete") \/ Finished(h, "get")) /\ snap[h].gone
           => resp[h].status = 404

DeleteTwiceWitness ==
    \E h \in Handlers :
        /\ Finished(h, "delete")
        /\ snap[h].gone
        /\ resp[h].status = 404

\* C8: when the acquisition of a connection or the statement fails,
\* execute_query ends by raising, and the handler answers 500, never 200,
\* 201 or 204.
ErrorsPropagate ==
    \A h \in Handlers :
        /\ snap[h].failed => outcome[h].tag = "error"
        /\ pc[h] = "done" /\ outcome[h].tag = "error" => resp[h].status = 500
        /\ pc[h] = "done" /\ snap[h].failed => resp[h].status \notin {200, 201, 204}

ErrorsPropagateWitness ==
    \E h \in Handlers :
        /\ pc[h] = "done"
        /\ req[h].op = "list"
        /\ snap[h].failed
        /\ resp[h].status = 500

\* C9: no connection is leased to two workers or both leased and idle, a worker
\* holds a connection exactly from acquisition to release, at most one
\* statement runs on a lease and exactly one when the call returns a result,
\* and no more connections are leased than the pool was created with.
LeaseExclusive ==
    /\ \A h1, h2 \in Handlers : h1 # h2 /\ conn[h1] # 0 => conn[h1] # conn[h2]
    /\ \A h \in Handlers :
        /\ conn[h] # 0 <=> pc[h] \in {"leased", "executed"}
        /\ conn[h] # 0 => conn[h] \notin Range(available)
                          /\ conn[h] \in 1 .. connection_pool.size
        /\ stmts[h] <= 1
        /\ outcome[h].tag \notin {"unset", "error"} => stmts[h] = 1
    /\ Cardinality(Leased) <= connection_pool.size

LeaseExclusiveWitness ==
    \E h1, h2 \in Handlers :
        /\ h1 # h2
        /\ pc[h1] = "executed"
        /\ pc[h2] = "leased"
        /\ conn[h1] # conn[h2]

\* C10: an update whose statement ran on an id present in its table is
\* answered 200 with the submitted fields and that id, also when the
\* submitted fields equal the stored ones.
UpdateExistingIs200 ==
    \A h \in Handlers :
        Finished(h, "update") /\ snap[h].existed
        => /\ resp[h].status = 200
           /\ resp[h].body = Extend(req[h].body, KeyColumn(req[h].res), req[h].id)

====
